---- MODULE Spec2Model ----
(***************************************************************************)
(* Selective build: the operator whitelist of                              *)
(* aten/src/ATen/core/op_registration/op_whitelist.h.                      *)
(*                                                                         *)
(* A string is a sequence of one-character strings.  The preprocessor      *)
(* definitions of a build are the record `macros`; every function of the   *)
(* header is an operator over them and its arguments.  The scan loop of    *)
(* op_whitelist_contains is also run one iteration per step (Spec), so     *)
(* that its cursor and its termination can be observed.                    *)
(***************************************************************************)
EXTENDS Integers, Sequences, FiniteSets

VARIABLES
    macros,     \* the build's preprocessor definitions
    fn,         \* the function being evaluated ("none" before the call)
    arg,        \* its string argument (op_name, schema)
    key,        \* its DispatchKey argument
    ret,        \* its outcome: "true", "false", "assert" ("none" while running)
    whitelist,  \* op_whitelist_contains: parameter whitelist
    item,       \* op_whitelist_contains: parameter item
    cur,        \* op_whitelist_contains: loop cursor
    next,       \* op_whitelist_contains: local next
    pc,         \* op_whitelist_contains: "idle", "loop", "done"
    compared    \* history: the segments compared so far, in order

vars == <<macros, fn, arg, key, ret, whitelist, item, cur, next, pc, compared>>

\* ------------------------------------------------------------------ bounds

MaxScanListLen == 4
MaxItemLen == 2
MaxListLen == 3
MaxNameLen == 4
MaxCfgListLen == 2
MaxSchemaLen == 4

\* Characters of the lists and items given to op_whitelist_contains directly.
ScanChars == {"a", "b", ";"}
\* Characters of configured whitelists and of operator names.
OpChars == {"a", ":", ".", ";"}
\* Characters of schema strings.
SchemaChars == {"a", ":", ".", ";", "("}

Strs(chars, n) == UNION {[1..k -> chars] : k \in 0..n}

\* -------------------------------------------------------- c10::string_view

\* string_view::npos, size_t(-1): larger than every size and every position.
npos == 2147483647

Min(S) == CHOOSE x \in S : \A y \in S : x <= y

\* s.find(pat, pos): the first position >= pos where pat occurs, else npos.
find(s, pat, pos) ==
    LET hits == {i \in pos..(Len(s) - Len(pat)) :
                    SubSeq(s, i + 1, i + Len(pat)) = pat}
    IN  IF hits = {} THEN npos ELSE Min(hits)

\* s.substr(pos, count): min(count, size - pos) characters from pos (the
\* header never passes a pos beyond size).
substr(s, pos, count) ==
    LET rcount == IF count < Len(s) - pos THEN count ELSE Len(s) - pos
    IN  SubSeq(s, pos + 1, pos + rcount)

\* a.compare(b): 0 iff the two views hold the same bytes (the sign of a
\* non-zero result is not used by the header).
compare(a, b) == IF a = b THEN 0 ELSE 1

\* ------------------------------------------------- op_whitelist_contains

\* The loop body with a next that is never advanced past the delimiter.
LoopBody_NoAdvance(wl, it, c) ==
    LET nx == find(wl, <<";">>, c)
    IN  IF nx # npos
        THEN IF compare(substr(wl, c, nx - c), it) = 0
             THEN [ctl |-> "return_true", next |-> nx, seg |-> substr(wl, c, nx - c)]
             ELSE [ctl |-> "continue", next |-> nx, seg |-> substr(wl, c, nx - c)]
        ELSE IF compare(substr(wl, c, npos), it) = 0
             THEN [ctl |-> "return_true", next |-> nx, seg |-> substr(wl, c, npos)]
             ELSE [ctl |-> "break", next |-> nx, seg |-> substr(wl, c, npos)]

\* The loop body with the comparison of the last segment left out.
LoopBody_SkipLast(wl, it, c) ==
    LET nx == find(wl, <<";">>, c)
    IN  IF nx # npos
        THEN IF compare(substr(wl, c, nx - c), it) = 0
             THEN [ctl |-> "return_true", next |-> nx, seg |-> substr(wl, c, nx - c)]
             ELSE [ctl |-> "continue", next |-> nx + 1, seg |-> substr(wl, c, nx - c)]
        ELSE [ctl |-> "break", next |-> nx, seg |-> substr(wl, c, npos)]

\* The loop body comparing only as many bytes as the item has.
LoopBody_Prefix(wl, it, c) ==
    LET nx == find(wl, <<";">>, c)
        pre(seg) == substr(seg, 0, Len(it))
    IN  IF nx # npos
        THEN IF compare(pre(substr(wl, c, nx - c)), it) = 0
             THEN [ctl |-> "return_true", next |-> nx, seg |-> substr(wl, c, nx - c)]
             ELSE [ctl |-> "continue", next |-> nx + 1, seg |-> substr(wl, c, nx - c)]
        ELSE IF compare(pre(substr(wl, c, npos)), it) = 0
             THEN [ctl |-> "return_true", next |-> nx, seg |-> substr(wl, c, npos)]
             ELSE [ctl |-> "break", next |-> nx, seg |-> substr(wl, c, npos)]

\* One pass through the body of the for loop, entered with cursor c: the new
\* value of next, how control leaves the body, and the segment compared.
LoopBody(wl, it, c) ==
    LET nx == find(wl, <<";">>, c)
    IN  IF nx # npos
        THEN IF compare(substr(wl, c, nx - c), it) = 0
             THEN [ctl |-> "return_true", next |-> nx, seg |-> substr(wl, c, nx - c)]
             ELSE [ctl |-> "continue", next |-> nx + 1, seg |-> substr(wl, c, nx - c)]
        ELSE IF compare(substr(wl, c, npos), it) = 0
             THEN [ctl |-> "return_true", next |-> nx, seg |-> substr(wl, c, npos)]
             ELSE [ctl |-> "break", next |-> nx, seg |-> substr(wl, c, npos)]

\* The for loop from cursor c on: for (; cur <= whitelist.size(); cur = next).
RECURSIVE Loop(_, _, _)
Loop(wl, it, c) ==
    IF c <= Len(wl)
    THEN LET b == LoopBody(wl, it, c)
         IN  CASE b.ctl = "return_true" -> TRUE
               [] b.ctl = "break" -> FALSE
               [] b.ctl = "continue" -> Loop(wl, it, b.next)
    ELSE FALSE

op_whitelist_contains(wl, it) == Loop(wl, it, 0)

\* --------------------------------------------------------------- the scan

NoMacros ==
    [defined |-> FALSE, TORCH_OPERATOR_WHITELIST |-> <<>>,
     TORCH_FORCE_SCHEMA_REGISTRATION |-> FALSE, C10_MOBILE |-> FALSE]

\* No function has been evaluated yet.
Idle ==
    /\ fn = "none" /\ arg = <<>> /\ key = "none" /\ ret = "none"
    /\ whitelist = <<>> /\ item = <<>>
    /\ cur = 0 /\ next = npos /\ pc = "idle" /\ compared = <<>>

ScanVars == <<whitelist, item, cur, next, pc, compared>>

Init == macros = NoMacros /\ Idle

\* The call: size_t next = -1; cur = 0.
Call_op_whitelist_contains ==
    /\ pc = "idle"
    /\ \E wl \in Strs(ScanChars, MaxScanListLen), it \in Strs(ScanChars, MaxItemLen) :
          /\ whitelist' = wl
          /\ item' = it
    /\ fn' = "op_whitelist_contains"
    /\ cur' = 0
    /\ next' = npos
    /\ pc' = "loop"
    /\ UNCHANGED <<macros, arg, key, ret, compared>>

\* The loop condition and, when it holds, one pass through the body and the
\* loop's increment cur = next.
LoopStep ==
    /\ pc = "loop"
    /\ IF cur <= Len(whitelist)
       THEN LET b == LoopBody(whitelist, item, cur)
            IN  /\ next' = b.next
                /\ compared' = Append(compared, b.seg)
                /\ CASE b.ctl = "return_true" ->
                          pc' = "done" /\ ret' = "true" /\ cur' = cur
                     [] b.ctl = "break" ->
                          pc' = "done" /\ ret' = "false" /\ cur' = cur
                     [] b.ctl = "continue" ->
                          pc' = "loop" /\ ret' = ret /\ cur' = b.next
       ELSE /\ pc' = "done" /\ ret' = "false"
            /\ UNCHANGED <<cur, next, compared>>
    /\ UNCHANGED <<macros, fn, arg, key, whitelist, item>>

Next ==
    \/ Call_op_whitelist_contains
    \/ LoopStep

Spec == Init /\ [][Next]_vars

\* A function that is running keeps running.
FairSpec == Spec /\ WF_vars(LoopStep)

\* ------------------------------------------------------ OperatorNameView

\* OperatorNameView::parse(full_name): name is the text before the first '.',
\* overload_name the text after it; without a '.', name is all of full_name.
parse(full_name) ==
    LET i == find(full_name, <<".">>, 0)
    IN  IF i = npos
        THEN [name |-> full_name, overload_name |-> <<>>]
        ELSE [name |-> substr(full_name, 0, i),
              overload_name |-> substr(full_name, i + 1, npos)]

\* ------------------------------------------------------------ DispatchKey

\* Enumerators of c10::DispatchKey: those the header and its description
\* name, and a sample of the others.
DispatchKey ==
    {"CPU", "CUDA", "Vulkan", "QuantizedCPU", "BackendSelect", "CatchAll",
     "HIP", "XLA", "QuantizedCUDA"}

\* ----------------------------------------------------------- the checks

Bool(b) == IF b THEN "true" ELSE "false"

\* op_whitelist_check that looks the name up with its overload suffix on.
op_whitelist_check_NoStrip(m, op_name) ==
    IF find(op_name, <<":", ":">>, 0) = npos
    THEN "assert"
    ELSE IF ~m.defined
         THEN "true"
         ELSE Bool(op_whitelist_contains(m.TORCH_OPERATOR_WHITELIST, op_name))

\* op_whitelist_check with the assertion inside the whitelist branch.
op_whitelist_check_LateAssert(m, op_name) ==
    IF ~m.defined
    THEN "true"
    ELSE IF find(op_name, <<":", ":">>, 0) = npos
         THEN "assert"
         ELSE Bool(op_whitelist_contains(m.TORCH_OPERATOR_WHITELIST,
                                         parse(op_name).name))

\* op_whitelist_check that reads the whitelist text whether or not it is defined.
op_whitelist_check_NoDefault(m, op_name) ==
    IF find(op_name, <<":", ":">>, 0) = npos
    THEN "assert"
    ELSE Bool(op_whitelist_contains(m.TORCH_OPERATOR_WHITELIST,
                                    parse(op_name).name))

\* op_whitelist_check that cuts the name at its last '.' instead of its first.
op_whitelist_check_LastDot(m, op_name) ==
    LET dots == {i \in 1..Len(op_name) : op_name[i] = "."}
        last == CHOOSE i \in dots : \A j \in dots : j <= i
    IN  IF find(op_name, <<":", ":">>, 0) = npos
        THEN "assert"
        ELSE IF ~m.defined
             THEN "true"
             ELSE Bool(op_whitelist_contains(
                         m.TORCH_OPERATOR_WHITELIST,
                         IF dots = {} THEN op_name ELSE SubSeq(op_name, 1, last - 1)))

\* The outcome of op_whitelist_check(op_name) in a build with definitions m:
\* "assert" when the assertion fails, else the boolean returned.  The
\* assertion is compiled in (NDEBUG is not defined); its condition
\* op_name.find("::").compare(string_view::npos) != 0 says that the position
\* found differs from npos.
op_whitelist_check(m, op_name) ==
    IF find(op_name, <<":", ":">>, 0) = npos
    THEN "assert"
    ELSE IF ~m.defined
         THEN "true"
         ELSE Bool(op_whitelist_contains(m.TORCH_OPERATOR_WHITELIST,
                                         parse(op_name).name))

\* schema_whitelist_check that hands the whole schema on.
schema_whitelist_check_NoCut(m, schema) ==
    IF m.TORCH_FORCE_SCHEMA_REGISTRATION
    THEN "true"
    ELSE op_whitelist_check(m, schema)

\* schema_whitelist_check without the override.
schema_whitelist_check_NoForce(m, schema) ==
    op_whitelist_check(m, substr(schema, 0, find(schema, <<"(">>, 0)))

schema_whitelist_check(m, schema) ==
    IF m.TORCH_FORCE_SCHEMA_REGISTRATION
    THEN "true"
    ELSE op_whitelist_check(m, substr(schema, 0, find(schema, <<"(">>, 0)))

\* dispatch_key_whitelist_check with CatchAll left out of the mobile keys.
dispatch_key_whitelist_check_NoCatchAll(m, k) ==
    IF m.C10_MOBILE
    THEN Bool(k = "CPU" \/ k = "Vulkan" \/ k = "QuantizedCPU" \/ k = "BackendSelect")
    ELSE "true"

dispatch_key_whitelist_check(m, k) ==
    IF m.C10_MOBILE
    THEN Bool(k = "CPU" \/ k = "Vulkan" \/ k = "QuantizedCPU"
              \/ k = "BackendSelect" \/ k = "CatchAll")
    ELSE "true"

\* --------------------------------------------------------- the builds

\* The builds: TORCH_OPERATOR_WHITELIST undefined, or defined as a list of at
\* most n characters; the two flags as given.
Builds(n, forces, mobiles) ==
    {[defined |-> d, TORCH_OPERATOR_WHITELIST |-> wl,
      TORCH_FORCE_SCHEMA_REGISTRATION |-> f, C10_MOBILE |-> mb] :
        d \in {TRUE}, wl \in Strs(OpChars, n), f \in forces, mb \in mobiles}
    \cup
    {[defined |-> d, TORCH_OPERATOR_WHITELIST |-> wl,
      TORCH_FORCE_SCHEMA_REGISTRATION |-> f, C10_MOBILE |-> mb] :
        d \in {FALSE}, wl \in {<<>>}, f \in forces, mb \in mobiles}

\* ----------------------------------------- op_whitelist_check evaluated

InitOp == macros \in Builds(MaxListLen, {FALSE}, {FALSE}) /\ Idle

Call_op_whitelist_check ==
    /\ fn = "none"
    /\ \E op_name \in Strs(OpChars, MaxNameLen) :
          /\ arg' = op_name
          /\ ret' = op_whitelist_check(macros, op_name)
    /\ fn' = "op_whitelist_check"
    /\ UNCHANGED <<macros, key, ScanVars>>

NextOp == Call_op_whitelist_check

SpecOp == InitOp /\ [][NextOp]_vars

\* ------------------------------------- schema_whitelist_check evaluated

InitSchema == macros \in Builds(MaxCfgListLen, BOOLEAN, {FALSE}) /\ Idle

Call_schema_whitelist_check ==
    /\ fn = "none"
    /\ \E schema \in Strs(SchemaChars, MaxSchemaLen) :
          /\ arg' = schema
          /\ ret' = schema_whitelist_check(macros, schema)
    /\ fn' = "schema_whitelist_check"
    /\ UNCHANGED <<macros, key, ScanVars>>

NextSchema == Call_schema_whitelist_check

SpecSchema == InitSchema /\ [][NextSchema]_vars

\* ------------------------------- dispatch_key_whitelist_check evaluated

InitKey == macros \in Builds(MaxCfgListLen, BOOLEAN, BOOLEAN) /\ Idle

Call_dispatch_key_whitelist_check ==
    /\ fn = "none"
    /\ \E k \in DispatchKey :
          /\ key' = k
          /\ ret' = dispatch_key_whitelist_check(macros, k)
    /\ fn' = "dispatch_key_whitelist_check"
    /\ UNCHANGED <<macros, arg, ScanVars>>

NextKey == Call_dispatch_key_whitelist_check

SpecKey == InitKey /\ [][NextKey]_vars

\* ============================================================ properties

\* The segments of s: s cut at every ';'.
RECURSIVE Split(_)
Split(s) ==
    LET semis == {i \in 1..Len(s) : s[i] = ";"}
    IN  IF semis = {}
        THEN <<s>>
        ELSE LET i == CHOOSE j \in semis : \A k \in semis : j <= k
             IN  <<SubSeq(s, 1, i - 1)>> \o Split(SubSeq(s, i + 1, Len(s)))

Segments(s) == {Split(s)[i] : i \in 1..Len(Split(s))}

NumDelims(s) == Cardinality({i \in 1..Len(s) : s[i] = ";"})

RECURSIVE Join(_)
Join(segs) ==
    IF Len(segs) = 1 THEN segs[1] ELSE segs[1] \o <<";">> \o Join(Tail(segs))

Has(s, ch) == \E i \in 1..Len(s) : s[i] = ch

NoDot(s) == ~Has(s, ".")

HasNamespace(s) == \E i \in 1..(Len(s) - 1) : s[i] = ":" /\ s[i + 1] = ":"

\* The text of s before its first ch; all of s when ch does not occur.
BeforeFirst(s, ch) ==
    IF Has(s, ch)
    THEN SubSeq(s, 1, (CHOOSE i \in 1..Len(s) :
                          s[i] = ch /\ \A j \in 1..(i - 1) : s[j] # ch) - 1)
    ELSE s

\* The text of s from its first ch on; empty when ch does not occur.
FromFirst(s, ch) == SubSeq(s, Len(BeforeFirst(s, ch)) + 1, Len(s))

\* "a;bc;d"
Ex_list == <<"a", ";", "b", "c", ";", "d">>
\* "aten::add"
Ex_add == <<"a", "t", "e", "n", ":", ":", "a", "d", "d">>
\* "aten::sub"
Ex_sub == <<"a", "t", "e", "n", ":", ":", "s", "u", "b">>
\* "aten::add.Tensor(Tensor self, Tensor other) -> Tensor"
Ex_schema_overload == <<"a", "t", "e", "n", ":", ":", "a", "d", "d", ".", "T", "e", "n", "s", "o", "r", "(", "T", "e", "n", "s", "o", "r", " ", "s", "e", "l", "f", ",", " ", "T", "e", "n", "s", "o", "r", " ", "o", "t", "h", "e", "r", ")", " ", "-", ">", " ", "T", "e", "n", "s", "o", "r">>
\* "aten::add(Tensor, Tensor) -> Tensor"
Ex_schema_plain == <<"a", "t", "e", "n", ":", ":", "a", "d", "d", "(", "T", "e", "n", "s", "o", "r", ",", " ", "T", "e", "n", "s", "o", "r", ")", " ", "-", ">", " ", "T", "e", "n", "s", "o", "r">>
\* "aten::add.Tensor(Tensor, Tensor) -> Tensor"
Ex_schema_plain_ov == <<"a", "t", "e", "n", ":", ":", "a", "d", "d", ".", "T", "e", "n", "s", "o", "r", "(", "T", "e", "n", "s", "o", "r", ",", " ", "T", "e", "n", "s", "o", "r", ")", " ", "-", ">", " ", "T", "e", "n", "s", "o", "r">>

WhitelistBuild(wl) ==
    [defined |-> TRUE, TORCH_OPERATOR_WHITELIST |-> wl,
     TORCH_FORCE_SCHEMA_REGISTRATION |-> FALSE, C10_MOBILE |-> FALSE]

\* ---------------------------------------------------------------- C1

C1_Examples ==
    /\ op_whitelist_contains(Ex_list, <<"b", "c">>)
    /\ op_whitelist_contains(Ex_list, <<"d">>)
    /\ op_whitelist_contains(<<>>, <<>>)
    /\ op_whitelist_contains(<<";", ";">>, <<>>)
    /\ ~op_whitelist_contains(Ex_list, <<"b">>)
    /\ \A t \in Strs(ScanChars, MaxItemLen) :
          t # <<>> => ~op_whitelist_contains(<<>>, t)

\* C1: op_whitelist_contains(L, t) returns true iff t equals one of the
\* segments of L cut at every ';' (empty segments included); the scan run
\* step by step and the function agree; the examples of the header and of
\* its description come out as stated.
C1_ContainsIffSegment ==
    /\ pc = "done" =>
          /\ (ret = "true") <=> (item \in Segments(whitelist))
          /\ (ret = "false") <=> (item \notin Segments(whitelist))
          /\ op_whitelist_contains(whitelist, item) = (ret = "true")
    /\ C1_Examples

\* A trailing ';' yields an empty last segment, which the empty item matches.
C1_Witness ==
    /\ pc = "done" /\ ret = "true"
    /\ whitelist = <<"a", ";">> /\ item = <<>>

\* ---------------------------------------------------------------- C9

\* What has been compared is the first segments of the list, in order, whole,
\* once each; a true return is at the first equal segment, a false return
\* after the last segment.
C9_Progress ==
    /\ Len(compared) <= NumDelims(whitelist) + 1
    /\ \A i \in 1..Len(compared) : compared[i] = Split(whitelist)[i]
    /\ \A i \in 1..(Len(compared) - 1) : compared[i] # item
    /\ pc = "loop" => ret = "none" /\ cur <= Len(whitelist)
    /\ (pc = "done" /\ ret = "true") => compared[Len(compared)] = item
    /\ (pc = "done" /\ ret = "false") =>
          /\ compared = Split(whitelist)
          /\ compared[Len(compared)] # item
    /\ pc = "done" => ret \in {"true", "false"}

\* An iteration that continues moves the cursor to one past the delimiter it
\* found, the first at or after the old cursor, and compares one segment.
C9_CursorAdvances ==
    (pc = "loop" /\ pc' = "loop") =>
        /\ cur' > cur
        /\ cur' = next'
        /\ whitelist[cur'] = ";"
        /\ \A j \in (cur + 1)..(cur' - 1) : whitelist[j] # ";"
        /\ Len(compared') = Len(compared) + 1

\* C9: the scan loop of op_whitelist_contains terminates; its cursor strictly
\* increases on every iteration, to one past the delimiter just found; the
\* segments are compared left to right, whole and once each, at most k+1 of
\* them for k delimiters; it returns true at the first equal segment and
\* false after the last.
C9_ScanTerminates ==
    /\ []C9_Progress
    /\ [][C9_CursorAdvances]_vars
    /\ (pc = "loop") ~> (pc = "done")

\* A scan that compared all three segments of a list and returned false.
C9_Witness ==
    /\ pc = "done" /\ ret = "false"
    /\ NumDelims(whitelist) = 2 /\ Len(compared) = 3 /\ cur = 4

\* --------------------------------------------------------------- C10

\* Adding entries to a configured whitelist turns no admitted operator into a
\* rejected one, on whichever side they are added.
C10_Admission ==
    \A L \in Strs(OpChars, MaxCfgListLen), M \in Strs(OpChars, MaxCfgListLen) :
        \A x \in Strs(OpChars, MaxCfgListLen + 2) :
            op_whitelist_check(WhitelistBuild(L), x) = "true" =>
                /\ op_whitelist_check(WhitelistBuild(L \o <<";">> \o M), x) = "true"
                /\ op_whitelist_check(WhitelistBuild(M \o <<";">> \o L), x) = "true"

\* C10: for a list L;M and a token t, op_whitelist_contains(L;M, t) is
\* op_whitelist_contains(L, t) or op_whitelist_contains(M, t), and equals
\* op_whitelist_contains(M;L, t): the scan of every list, cut at each of its
\* delimiters in turn.  Hence a longer whitelist admits no less.
C10_ConcatIsOr ==
    /\ C10_Admission
    /\ pc = "done" =>
        \A p \in 1..Len(whitelist) :
            whitelist[p] = ";" =>
                LET L == SubSeq(whitelist, 1, p - 1)
                    M == SubSeq(whitelist, p + 1, Len(whitelist))
                IN  /\ (ret = "true") <=>
                          (op_whitelist_contains(L, item) \/ op_whitelist_contains(M, item))
                    /\ (ret = "true") <=>
                          op_whitelist_contains(M \o <<";">> \o L, item)

\* An item found in the second half only.
C10_Witness ==
    /\ pc = "done" /\ ret = "true"
    /\ whitelist = <<"b", ";", "a", "b">> /\ item = <<"a", "b">>

\* ---------------------------------------------------------------- C2

\* C2: with a whitelist configured, op_whitelist_check(ns::base.overload) has
\* the outcome of op_whitelist_check(ns::base), and both are
\* op_whitelist_contains(configured list, ns::base).
C2_OverloadStripped ==
    (/\ fn = "op_whitelist_check" /\ macros.defined
     /\ Has(arg, ".") /\ HasNamespace(BeforeFirst(arg, "."))) =>
        LET base == BeforeFirst(arg, ".")
        IN  /\ ret = op_whitelist_check(macros, base)
            /\ ret = Bool(op_whitelist_contains(macros.TORCH_OPERATOR_WHITELIST, base))

\* An overload of a whitelisted operator is admitted.
C2_Witness ==
    /\ fn = "op_whitelist_check" /\ macros.defined
    /\ macros.TORCH_OPERATOR_WHITELIST = <<";", ":", ":">>
    /\ arg = <<":", ":", ".", "a">> /\ ret = "true"

\* ---------------------------------------------------------------- C3

\* C3: with TORCH_OPERATOR_WHITELIST undefined, op_whitelist_check returns
\* true for every name that contains "::".
C3_NoWhitelistAdmitsAll ==
    (fn = "op_whitelist_check" /\ ~macros.defined /\ HasNamespace(arg)) =>
        ret = "true"

C3_Witness ==
    /\ fn = "op_whitelist_check" /\ ~macros.defined
    /\ arg = <<":", ":", "a", ".">> /\ ret = "true"

\* ---------------------------------------------------------------- C6

\* C6: op_whitelist_check ends in the assertion failure exactly when its
\* argument does not contain "::", whether or not a whitelist is configured;
\* every name that contains "::" yields a boolean.
C6_AssertIffNoNamespace ==
    fn = "op_whitelist_check" =>
        /\ (ret = "assert") <=> ~HasNamespace(arg)
        /\ HasNamespace(arg) => ret \in {"true", "false"}

\* The assertion fails in a build without a whitelist.
C6_Witness ==
    /\ fn = "op_whitelist_check" /\ ~macros.defined
    /\ arg = <<"a", ":", ".", ":">> /\ ret = "assert"

\* ---------------------------------------------------------------- C8

\* C8: the decision of op_whitelist_check for a name containing "::" is that
\* of the whitelist with its tokens containing '.' deleted, and false when no
\* other token is left: a token with a '.' admits nothing, not even the name
\* equal to it.
C8_BaseNamesOnly ==
    (fn = "op_whitelist_check" /\ macros.defined /\ HasNamespace(arg)) =>
        LET kept == SelectSeq(Split(macros.TORCH_OPERATOR_WHITELIST), NoDot)
        IN  /\ (ret = "true") <=>
                  \E i \in 1..Len(kept) : kept[i] = BeforeFirst(arg, ".")
            /\ IF kept = <<>>
               THEN ret = "false"
               ELSE ret = op_whitelist_check(WhitelistBuild(Join(kept)), arg)

\* The name equal to the only token of the whitelist is rejected.
C8_Witness ==
    /\ fn = "op_whitelist_check" /\ macros.defined
    /\ macros.TORCH_OPERATOR_WHITELIST = <<":", ":", ".">>
    /\ arg = <<":", ":", ".">> /\ ret = "false"

\* ---------------------------------------------------------------- C4

C4_Examples ==
    /\ schema_whitelist_check(WhitelistBuild(Ex_add), Ex_schema_overload) = "true"
    /\ schema_whitelist_check(WhitelistBuild(Ex_sub), Ex_schema_overload) = "false"
    /\ schema_whitelist_check(WhitelistBuild(Ex_add), Ex_schema_plain) = "true"
    /\ schema_whitelist_check(WhitelistBuild(Ex_add), Ex_schema_plain_ov) = "true"
    /\ schema_whitelist_check(WhitelistBuild(Ex_sub), Ex_schema_plain) = "false"
    /\ schema_whitelist_check(WhitelistBuild(Ex_sub), Ex_schema_plain_ov) = "false"

\* C4: without the override, schema_whitelist_check(s) has the outcome of
\* op_whitelist_check on the text of s before its first '(' (all of s without
\* one), the assertion failure included; a schema with and without an overload
\* suffix before the '(' gets the same outcome; the examples come out as
\* stated.
C4_SchemaDelegates ==
    /\ (fn = "schema_whitelist_check" /\ ~macros.TORCH_FORCE_SCHEMA_REGISTRATION) =>
          LET p == BeforeFirst(arg, "(")
              q == BeforeFirst(p, ".")
          IN  /\ ret = op_whitelist_check(macros, p)
              /\ (ret = "assert") <=> ~HasNamespace(p)
              /\ HasNamespace(q) =>
                    ret = schema_whitelist_check(macros, q \o FromFirst(arg, "("))
    /\ C4_Examples

\* "::" occurs only inside the argument list: the assertion fails.
C4_Witness ==
    /\ fn = "schema_whitelist_check" /\ ~macros.TORCH_FORCE_SCHEMA_REGISTRATION
    /\ macros.defined
    /\ arg = <<"a", "(", ":", ":">> /\ ret = "assert"

\* ---------------------------------------------------------------- C7

\* C7: with TORCH_FORCE_SCHEMA_REGISTRATION defined, schema_whitelist_check
\* returns true for every schema, whatever the whitelist, also when the text
\* before '(' has no "::".
C7_ForceAdmitsAll ==
    (fn = "schema_whitelist_check" /\ macros.TORCH_FORCE_SCHEMA_REGISTRATION) =>
        ret = "true"

C7_Witness ==
    /\ fn = "schema_whitelist_check" /\ macros.TORCH_FORCE_SCHEMA_REGISTRATION
    /\ macros.defined /\ macros.TORCH_OPERATOR_WHITELIST = <<":", ":">>
    /\ arg = <<"a", ".", "(", ":">> /\ ret = "true"

\* ---------------------------------------------------------------- C5

MobileKeys == {"CPU", "Vulkan", "QuantizedCPU", "BackendSelect", "CatchAll"}

\* C5: under C10_MOBILE, dispatch_key_whitelist_check(k) is true iff k is one
\* of CPU, Vulkan, QuantizedCPU, BackendSelect, CatchAll; without C10_MOBILE
\* it is true for every key; the operator whitelist and the schema override
\* do not change it.
C5_DispatchKeys ==
    fn = "dispatch_key_whitelist_check" =>
        /\ ret \in {"true", "false"}
        /\ macros.C10_MOBILE => ((ret = "true") <=> (key \in MobileKeys))
        /\ ~macros.C10_MOBILE => ret = "true"
        /\ \A m \in Builds(MaxCfgListLen, BOOLEAN, {macros.C10_MOBILE}) :
              dispatch_key_whitelist_check(m, key) = ret

\* CUDA is rejected under C10_MOBILE, with a whitelist and the override set.
C5_Witness ==
    /\ fn = "dispatch_key_whitelist_check" /\ macros.C10_MOBILE
    /\ macros.defined /\ macros.TORCH_OPERATOR_WHITELIST = <<":", ":">>
    /\ macros.TORCH_FORCE_SCHEMA_REGISTRATION
    /\ key = "CUDA" /\ ret = "false"

====
